---- MODULE Spec2Model ----
(***************************************************************************)
(* Model of app/schemas/user_schemas.py: the field validators              *)
(* (validate_url, validate_password, validate_github_url,                  *)
(* validate_linkedin_url) and the record shapes UserCreate, UserUpdate and *)
(* UserResponse as pydantic (v2) validates them: the pre root validator,   *)
(* then every declared field in declaration order (the pre=True validator  *)
(* first, the field's own type and constraints after it), all field errors *)
(* collected into one ValidationError; an exception that is neither a      *)
(* ValueError nor an AssertionError leaves the validation as it is raised. *)
(*                                                                         *)
(* A string is a sequence of one-character strings.  A raw value is        *)
(* Missing (the key is not in the input), None, or Str(s).                 *)
(***************************************************************************)
EXTENDS Integers, Sequences, FiniteSets, TLC

VARIABLES
    shape,      \* "idle", or the schema being validated: "create", "update", "response"
    raw,        \* the raw input: field name -> Missing | None | Str(s)
    phase,      \* "idle", "root", "pre", "core", "done"
    idx,        \* index in FieldOrder(shape) of the field being validated
    cur,        \* the value of the current field between its pre validator and its core check
    errors,     \* the errors collected so far: a set of [loc, type, msg]
    out,        \* the validated values so far: field name -> None | Str(s)
    result,     \* "none", "ok", "invalid" (ValidationError), "raised" (another exception)
    genCalls,   \* generate_nickname() calls in this validation
    trace,      \* what ran, in order: <<"root" | "pre" | "gen" | "check" | "raise", field>>
    arg,        \* input of a field validator applied on its own
    ret         \* ... and what it returned or raised

vars == <<shape, raw, phase, idx, cur, errors, out, result, genCalls, trace, arg, ret>>

----------------------------------------------------------------------------
(* Values *)

None == [kind |-> "none"]
Missing == [kind |-> "missing"]
Str(s) == [kind |-> "str", s |-> s]
IsStr(v) == v.kind = "str"

\* What a validator function does: return a value, or raise.
Return(v) == [ok |-> TRUE, v |-> v]
Raise(exc, msg) == [ok |-> FALSE, exc |-> exc, msg |-> msg]
Unset == [ok |-> FALSE, exc |-> "unset", msg |-> ""]

----------------------------------------------------------------------------
(* Characters *)

LowerChars == {"a","b","c","d","e","f","g","h","i","j","k","l","m",
               "n","o","p","q","r","s","t","u","v","w","x","y","z"}
UpperChars == {"A","B","C","D","E","F","G","H","I","J","K","L","M",
               "N","O","P","Q","R","S","T","U","V","W","X","Y","Z"}
DigitChars == {"0","1","2","3","4","5","6","7","8","9"}
SpaceChars == {" ", "\t", "\n", "\r"}
OtherChars == {":", "/", ".", "-", "_", "%", "$", "?", "#", "@", "*", "!"}
Chars == LowerChars \cup UpperChars \cup DigitChars \cup SpaceChars \cup OtherChars

isupper(c) == c \in UpperChars
islower(c) == c \in LowerChars
isdigit(c) == c \in DigitChars

\* str.lower() on one character
ToLower(c) ==
    CASE c = "A" -> "a" [] c = "B" -> "b" [] c = "C" -> "c" [] c = "D" -> "d"
      [] c = "E" -> "e" [] c = "F" -> "f" [] c = "G" -> "g" [] c = "H" -> "h"
      [] c = "I" -> "i" [] c = "J" -> "j" [] c = "K" -> "k" [] c = "L" -> "l"
      [] c = "M" -> "m" [] c = "N" -> "n" [] c = "O" -> "o" [] c = "P" -> "p"
      [] c = "Q" -> "q" [] c = "R" -> "r" [] c = "S" -> "s" [] c = "T" -> "t"
      [] c = "U" -> "u" [] c = "V" -> "v" [] c = "W" -> "w" [] c = "X" -> "x"
      [] c = "Y" -> "y" [] c = "Z" -> "z" [] OTHER -> c

\* any(...) over the values a generator expression yields
any(bs) == \E i \in DOMAIN bs : bs[i]

----------------------------------------------------------------------------
(* Regular expressions: a pattern is a sequence of items [cls, q], a       *)
(* character class with a quantifier "1", "?", "*" or "+", anchored at     *)
(* both ends.                                                              *)

Lit(c) == [cls |-> {c}, q |-> "1"]
One(cls) == [cls |-> cls, q |-> "1"]
Opt(cls) == [cls |-> cls, q |-> "?"]
Star(cls) == [cls |-> cls, q |-> "*"]
Plus(cls) == [cls |-> cls, q |-> "+"]

\* Python's $ (no re.MULTILINE): at the end, or before a newline that ends the string.
PyAtEnd(s) == s = <<>> \/ s = <<"\n">>
\* The regex crate's $ (pydantic-core compiles Field(pattern=...)): at the end only.
StrictAtEnd(s) == s = <<>>

RECURSIVE MatchItems(_, _, _)
MatchItems(items, s, pyEnd) ==
    IF items = <<>> THEN (IF pyEnd THEN PyAtEnd(s) ELSE StrictAtEnd(s))
    ELSE LET it == Head(items)
             rest == Tail(items)
             takes == s # <<>> /\ Head(s) \in it.cls
         IN CASE it.q = "1" -> takes /\ MatchItems(rest, Tail(s), pyEnd)
              [] it.q = "?" -> \/ (takes /\ MatchItems(rest, Tail(s), pyEnd))
                               \/ MatchItems(rest, s, pyEnd)
              [] it.q = "*" -> \/ (takes /\ MatchItems(items, Tail(s), pyEnd))
                               \/ MatchItems(rest, s, pyEnd)
              [] it.q = "+" -> takes /\ MatchItems(<<Star(it.cls)>> \o rest, Tail(s), pyEnd)

\* re.match(pattern, s) for a pattern that starts with ^ and ends with $
re_match(items, s) == MatchItems(items, s, TRUE)

h_t_t_p == <<Lit("h"), Lit("t"), Lit("t"), Lit("p")>>
SchemeItems == h_t_t_p \o <<Opt({"s"}), Lit(":"), Lit("/"), Lit("/")>>
www_dot == <<Lit("w"), Lit("w"), Lit("w"), Lit(".")>>
AlnumChars == LowerChars \cup UpperChars \cup DigitChars
\* \w on the model's characters
WordChars == AlnumChars \cup {"_"}

\* r'^https?:\/\/[^\s/$.?#].[^\s]*$'
url_regex ==
    SchemeItems \o <<One(Chars \ (SpaceChars \cup {"/", "$", ".", "?", "#"})),
                     One(Chars \ {"\n"}),
                     Star(Chars \ SpaceChars)>>

github_com_slash ==
    <<Lit("g"), Lit("i"), Lit("t"), Lit("h"), Lit("u"), Lit("b"), Lit("."),
      Lit("c"), Lit("o"), Lit("m"), Lit("/")>>
GithubTail == github_com_slash \o <<Plus(AlnumChars \cup {"-", "_"}), Opt({"/"})>>

\* r'^https?:\/\/(?:www\.)?github\.com\/[a-zA-Z0-9-_]+\/?$': the optional
\* group is the alternative of the pattern with it and the pattern without it.
github_url_pattern == {SchemeItems \o www_dot \o GithubTail, SchemeItems \o GithubTail}

linkedin_com_in_slash ==
    <<Lit("l"), Lit("i"), Lit("n"), Lit("k"), Lit("e"), Lit("d"), Lit("i"), Lit("n"),
      Lit("."), Lit("c"), Lit("o"), Lit("m"), Lit("/"), Lit("i"), Lit("n"), Lit("/")>>
LinkedinTail == linkedin_com_in_slash \o <<Plus(AlnumChars \cup {"-", "_", "%"}), Opt({"/"})>>

\* r'^https?:\/\/(?:www\.)?linkedin\.com\/in\/[a-zA-Z0-9-_%]+\/?$'
linkedin_url_pattern == {SchemeItems \o www_dot \o LinkedinTail, SchemeItems \o LinkedinTail}

\* r'^[\w-]+$' of Field(pattern=...)
nickname_pattern == <<Plus(WordChars \cup {"-"})>>

----------------------------------------------------------------------------
(* Field validators *)

MsgUrl == "Invalid URL format"
MsgGithub == "Invalid GitHub profile URL. The correct format is: https://github.com/<username>."
MsgLinkedin == "Invalid LinkedIn profile URL. The correct format is: https://www.linkedin.com/in/<username>."
MsgPwLength == "Password must be at least 8 characters."
MsgPwUpper == "Password must contain at least one uppercase letter."
MsgPwLower == "Password must contain at least one lowercase letter."
MsgPwDigit == "Password must contain at least one digit."

\* Variant: validate_url without the test for None
validate_url_NoNoneCheck(url) ==
    IF IsStr(url) /\ re_match(url_regex, url.s) THEN Return(url)
    ELSE Raise("ValueError", MsgUrl)

validate_url(url) ==
    IF url = None THEN Return(url)
    ELSE IF ~re_match(url_regex, url.s) THEN Raise("ValueError", MsgUrl)
    ELSE Return(url)

MinPasswordLen == 8

\* Variant: validate_password with the digit rule moved before the case rules
validate_password_DigitFirst(password) ==
    IF password = None THEN Raise("TypeError", "object of type 'NoneType' has no len()")
    ELSE IF Len(password.s) < MinPasswordLen THEN Raise("ValueError", MsgPwLength)
    ELSE IF ~any([i \in 1..Len(password.s) |-> isdigit(password.s[i])]) THEN Raise("ValueError", MsgPwDigit)
    ELSE IF ~any([i \in 1..Len(password.s) |-> isupper(password.s[i])]) THEN Raise("ValueError", MsgPwUpper)
    ELSE IF ~any([i \in 1..Len(password.s) |-> islower(password.s[i])]) THEN Raise("ValueError", MsgPwLower)
    ELSE Return(password)

\* len(None) raises TypeError
validate_password(password) ==
    IF password = None THEN Raise("TypeError", "object of type 'NoneType' has no len()")
    ELSE IF Len(password.s) < MinPasswordLen THEN Raise("ValueError", MsgPwLength)
    ELSE IF ~any([i \in 1..Len(password.s) |-> isupper(password.s[i])]) THEN Raise("ValueError", MsgPwUpper)
    ELSE IF ~any([i \in 1..Len(password.s) |-> islower(password.s[i])]) THEN Raise("ValueError", MsgPwLower)
    ELSE IF ~any([i \in 1..Len(password.s) |-> isdigit(password.s[i])]) THEN Raise("ValueError", MsgPwDigit)
    ELSE Return(password)

validate_github_url(url) ==
    IF url = None THEN Return(url)
    ELSE IF ~(\E p \in github_url_pattern : re_match(p, url.s)) THEN Raise("ValueError", MsgGithub)
    ELSE Return(url)

validate_linkedin_url(url) ==
    IF url = None THEN Return(url)
    ELSE IF ~(\E p \in linkedin_url_pattern : re_match(p, url.s)) THEN Raise("ValueError", MsgLinkedin)
    ELSE Return(url)

----------------------------------------------------------------------------
(* String literals of the model *)

s_http == <<"h", "t", "t", "p">>
s_https == <<"h", "t", "t", "p", "s">>
s_ftp == <<"f", "t", "p">>
s_sep == <<":", "/", "/">>
s_badsep == <<":", "/">>
s_www == <<"w", "w", "w", ".">>
s_github == <<"g", "i", "t", "h", "u", "b", ".", "c", "o", "m", "/">>
s_githubXcom == <<"g", "i", "t", "h", "u", "b", "X", "c", "o", "m", "/">>
s_linkedin_in == <<"l", "i", "n", "k", "e", "d", "i", "n", ".", "c", "o", "m", "/", "i", "n", "/">>
s_linkedin == <<"l", "i", "n", "k", "e", "d", "i", "n", ".", "c", "o", "m", "/">>
s_example == <<"e", "x", "a", "m", "p", "l", "e", ".", "c", "o", "m", "/">>

----------------------------------------------------------------------------
(* The field validators applied on their own: validate_password on every   *)
(* string over PwAlphabet of at most MaxPwLen characters, the three URL    *)
(* validators on None and on every URL put together from the parts below.  *)

MaxPwLen == 8
PwAlphabet == {"A", "a", "1", "-"}
PwStrings == UNION {[1..n -> PwAlphabet] : n \in 0..MaxPwLen}

MaxNameLen == 2
NameAlphabet == {"a", "-", "%", "/", " "}
UrlNames == UNION {[1..n -> NameAlphabet] : n \in 0..MaxNameLen}
UrlSchemes == {s_http, s_https, s_ftp}
UrlSeps == {s_sep, s_badsep}
UrlWww == {<<>>, s_www}
UrlHosts == {<<>>, s_github, s_githubXcom, s_linkedin_in, s_linkedin, s_example}
UrlEnds == {<<>>, <<"\n">>}
UrlStrings ==
    {sc \o sp \o w \o h \o n \o e :
        sc \in UrlSchemes, sp \in UrlSeps, w \in UrlWww, h \in UrlHosts,
        n \in UrlNames, e \in UrlEnds}
UrlValidators == {"validate_url", "validate_github_url", "validate_linkedin_url"}

NoArg == [fn |-> "none", v |-> None]

----------------------------------------------------------------------------
(* String literals of the record inputs *)

s_email_ok == <<"a", "@", "B", ".", "c", "o">>
s_email_bad == <<"a", "b", ".", "c", "o">>
s_email_padded == <<" ", "a", "@", "B", ".", "c", "o", "\n">>
s_nick_ok == <<"a", "l", "_", "1">>
s_nick_short == <<"a", "b">>
s_nick_bad == <<"a", "b", "!">>
s_name == <<"A", "l">>
s_bio == <<"h", "i">>
s_gen_fox == <<"f", "o", "x", "_", "1">>
s_gen_owl == <<"o", "w", "l", "-", "7">>
s_gen_bad == <<"x", " ", "y", " ", "z">>
s_pic_ok == <<"h", "t", "t", "p", "s", ":", "/", "/", "e", "x", "a", "m", "p", "l", "e", ".", "c", "o", "m", "/", "a">>
s_pic_bad == <<"f", "t", "p", ":", "/", "/", "e", "x", "a", "m", "p", "l", "e", ".", "c", "o", "m", "/", "a">>
s_gh_ok == <<"h", "t", "t", "p", "s", ":", "/", "/", "g", "i", "t", "h", "u", "b", ".", "c", "o", "m", "/", "a">>
s_gh_bad == <<"h", "t", "t", "p", "s", ":", "/", "/", "g", "i", "t", "h", "u", "b", ".", "c", "o", "m", "/", "a", "/", "a">>
s_li_ok == <<"h", "t", "t", "p", "s", ":", "/", "/", "w", "w", "w", ".", "l", "i", "n", "k", "e", "d", "i", "n", ".", "c", "o", "m", "/", "i", "n", "/", "a">>
s_ADMIN == <<"A", "D", "M", "I", "N">>
s_ANONYMOUS == <<"A", "N", "O", "N", "Y", "M", "O", "U", "S">>
s_AUTHENTICATED == <<"A", "U", "T", "H", "E", "N", "T", "I", "C", "A", "T", "E", "D">>
s_MODERATOR == <<"M", "O", "D", "E", "R", "A", "T", "O", "R">>
s_SUPERUSER == <<"S", "U", "P", "E", "R", "U", "S", "E", "R">>
s_pw_ok == <<"A", "b", "c", "d", "e", "f", "g", "1">>
s_pw_short == <<"A", "b", "1">>
s_pw_noupper == <<"a", "b", "c", "d", "e", "f", "g", "1">>
s_uuid_ok == <<"1", "2", "3", "e", "4", "5", "6", "7", "-", "e", "8", "9", "b", "-", "1", "2", "d", "3", "-", "a", "4", "5", "6", "-", "4", "2", "6", "6", "1", "4", "1", "7", "4", "0", "0", "0">>
s_uuid_bad == <<"1", "2", "3">>
s_uuid_simple == <<"1", "2", "3", "E", "4", "5", "6", "7", "e", "8", "9", "b", "1", "2", "d", "3", "a", "4", "5", "6", "4", "2", "6", "6", "1", "4", "1", "7", "4", "0", "0", "0">>
s_uuid_urn == <<"u", "r", "n", ":", "u", "u", "i", "d", ":", "1", "2", "3", "e", "4", "5", "6", "7", "-", "e", "8", "9", "b", "-", "1", "2", "d", "3", "-", "a", "4", "5", "6", "-", "4", "2", "6", "6", "1", "4", "1", "7", "4", "0", "0", "0">>
s_uuid_braced == <<"{", "1", "2", "3", "e", "4", "5", "6", "7", "-", "e", "8", "9", "b", "-", "1", "2", "d", "3", "-", "a", "4", "5", "6", "-", "4", "2", "6", "6", "1", "4", "1", "7", "4", "0", "0", "0", "}">>
s_uuid_misplaced == <<"1", "2", "3", "e", "4", "5", "6", "7", "e", "8", "9", "b", "-", "1", "2", "d", "3", "a", "4", "5", "6", "4", "2", "6", "6", "1", "4", "1", "7", "4", "0", "0", "0">>
s_uuid_trailing == <<"1", "2", "3", "e", "4", "5", "6", "7", "-", "e", "8", "9", "b", "-", "1", "2", "d", "3", "-", "a", "4", "5", "6", "-", "4", "2", "6", "6", "1", "4", "1", "7", "4", "0", "0", "0", "-">>
s_one == <<"1">>
s_Yes == <<"Y", "e", "s">>
s_off == <<"o", "f", "f">>
s_x == <<"x">>

----------------------------------------------------------------------------
(* Collaborators of the schemas *)

\* app.models.user_model.UserRole: the member values
UserRole == {s_ANONYMOUS, s_AUTHENTICATED, s_MODERATOR, s_ADMIN}

\* app.utils.nickname_gen.generate_nickname(): what one call does.
\* Within its contract it returns a name that conforms to the nickname pattern.
GenReturns == {Return(Str(s_gen_fox)), Return(Str(s_gen_owl))}
\* Outside its contract it raises, or returns a string that does not conform.
GenBreaks == {Raise("ValueError", "no nickname"), Raise("AssertionError", "no nickname"),
              Raise("RuntimeError", "no nickname"),
              Return(Str(s_gen_bad))}

Bool(b) == [kind |-> "bool", b |-> b]

----------------------------------------------------------------------------
(* What pydantic does with a field's annotation *)

LocalChars == AlnumChars \cup {".", "-", "_"}
DomainChars == AlnumChars \cup {".", "-"}
AtPositions(s) == {i \in 1..Len(s) : s[i] = "@"}
NoEmptyLabel(d) ==
    /\ d # <<>> /\ d[1] # "." /\ d[Len(d)] # "."
    /\ \A i \in 1..(Len(d) - 1) : ~(d[i] = "." /\ d[i + 1] = ".")

\* email_validator, on the addresses of the model: local@domain, a dotted domain
ValidEmail(s) ==
    /\ Cardinality(AtPositions(s)) = 1
    /\ LET at == CHOOSE i \in AtPositions(s) : TRUE
           local == SubSeq(s, 1, at - 1)
           domain == SubSeq(s, at + 1, Len(s))
       IN /\ NoEmptyLabel(local)
          /\ \A i \in 1..Len(local) : local[i] \in LocalChars
          /\ NoEmptyLabel(domain)
          /\ \E i \in 1..Len(domain) : domain[i] = "."
          /\ \A i \in 1..Len(domain) : domain[i] \in DomainChars

RECURSIVE LowerAfterAt(_, _)
LowerAfterAt(s, seen) ==
    IF s = <<>> THEN <<>>
    ELSE <<IF seen THEN ToLower(Head(s)) ELSE Head(s)>>
         \o LowerAfterAt(Tail(s), seen \/ Head(s) = "@")

\* the normalized address EmailStr returns: the domain in lower case
NormalizeEmail(s) == LowerAfterAt(s, FALSE)

RECURSIVE lstrip(_)
lstrip(s) == IF s # <<>> /\ Head(s) \in SpaceChars THEN lstrip(Tail(s)) ELSE s

RECURSIVE rstrip(_)
rstrip(s) == IF s # <<>> /\ s[Len(s)] \in SpaceChars THEN rstrip(SubSeq(s, 1, Len(s) - 1)) ELSE s

\* str.strip(): white space off both ends
strip(s) == rstrip(lstrip(s))

\* pydantic.networks.validate_email strips the value, then has it checked and normalized
EmailStr(v) ==
    IF ~IsStr(v) THEN Raise("string_type", "Input should be a valid string")
    ELSE IF ~ValidEmail(strip(v.s)) THEN Raise("value_error", "value is not a valid email address")
    ELSE Return(Str(NormalizeEmail(strip(v.s))))

NicknameMinLen == 3

\* str with Field(min_length=3, pattern=r'^[\w-]+$')
NicknameStr(v) ==
    IF ~IsStr(v) THEN Raise("string_type", "Input should be a valid string")
    ELSE IF Len(v.s) < NicknameMinLen
         THEN Raise("string_too_short", "String should have at least 3 characters")
    ELSE IF ~MatchItems(nickname_pattern, v.s, FALSE)
         THEN Raise("string_pattern_mismatch", "String should match pattern")
    ELSE Return(v)

PlainStr(v) ==
    IF ~IsStr(v) THEN Raise("string_type", "Input should be a valid string")
    ELSE Return(v)

RoleEnum(v) ==
    IF IsStr(v) /\ v.s \in UserRole THEN Return(v)
    ELSE Raise("enum", "Input should be a member of UserRole")

HexChars == DigitChars \cup {"a", "b", "c", "d", "e", "f", "A", "B", "C", "D", "E", "F"}
UuidHexLen == 32
UuidHyphenatedLen == 36
UuidHyphenAt == {9, 14, 19, 24}
uuid_urn_prefix == <<"u", "r", "n", ":", "u", "u", "i", "d", ":">>

HasUuidUrnPrefix(s) ==
    Len(s) >= Len(uuid_urn_prefix) /\ SubSeq(s, 1, Len(uuid_urn_prefix)) = uuid_urn_prefix

\* the 32 digit form
IsSimpleUuid(s) == Len(s) = UuidHexLen /\ \A i \in 1..Len(s) : s[i] \in HexChars

\* the 8-4-4-4-12 form
IsHyphenatedUuid(s) ==
    /\ Len(s) = UuidHyphenatedLen
    /\ \A i \in 1..Len(s) : IF i \in UuidHyphenAt THEN s[i] = "-" ELSE s[i] \in HexChars

\* the hyphenated form inside "{...}" or after "urn:uuid:", or the string itself
UuidBody(s) ==
    IF Len(s) = UuidHyphenatedLen + 2 /\ s[1] = "{" /\ s[Len(s)] = "}"
    THEN SubSeq(s, 2, Len(s) - 1)
    ELSE IF Len(s) = UuidHyphenatedLen + Len(uuid_urn_prefix) /\ HasUuidUrnPrefix(s)
    THEN SubSeq(s, Len(uuid_urn_prefix) + 1, Len(s))
    ELSE s

\* the value of the uuid.UUID, written as str() writes it: hyphenated, in lower case
UuidCanonical(s) ==
    LET h == SelectSeq(s, LAMBDA c : c # "-")
        l == [i \in 1..Len(h) |-> ToLower(h[i])]
    IN SubSeq(l, 1, 8) \o <<"-">> \o SubSeq(l, 9, 12) \o <<"-">> \o SubSeq(l, 13, 16)
       \o <<"-">> \o SubSeq(l, 17, 20) \o <<"-">> \o SubSeq(l, 21, 32)

\* uuid.UUID, in lax mode: a string in the simple, hyphenated, braced or urn form
UuidOf(v) ==
    IF ~IsStr(v) THEN Raise("uuid_type", "UUID input should be a string, bytes or UUID object")
    ELSE IF IsSimpleUuid(v.s) THEN Return(Str(UuidCanonical(v.s)))
    ELSE IF IsHyphenatedUuid(UuidBody(v.s)) THEN Return(Str(UuidCanonical(UuidBody(v.s))))
    ELSE Raise("uuid_parsing", "Input should be a valid UUID")

BoolTrueStrings == {<<"1">>, <<"o", "n">>, <<"t">>, <<"t", "r", "u", "e">>, <<"y">>, <<"y", "e", "s">>}
BoolFalseStrings == {<<"0">>, <<"o", "f", "f">>, <<"f">>, <<"f", "a", "l", "s", "e">>, <<"n">>, <<"n", "o">>}
lower(s) == [i \in 1..Len(s) |-> ToLower(s[i])]

\* bool, in lax mode: a bool, or one of the strings pydantic reads as a bool
BoolOf(v) ==
    IF v.kind = "bool" THEN Return(v)
    ELSE IF ~IsStr(v) THEN Raise("bool_type", "Input should be a valid boolean")
    ELSE IF lower(v.s) \in BoolTrueStrings THEN Return(Bool(TRUE))
    ELSE IF lower(v.s) \in BoolFalseStrings THEN Return(Bool(FALSE))
    ELSE Raise("bool_parsing", "Input should be a valid boolean, unable to interpret input")

\* Optional[T]: None is accepted as it is, anything else goes to T
OptionalStr(v) == IF v = None THEN Return(None) ELSE PlainStr(v)
OptionalEmailStr(v) == IF v = None THEN Return(None) ELSE EmailStr(v)
OptionalNicknameStr(v) == IF v = None THEN Return(None) ELSE NicknameStr(v)
OptionalBool(v) == IF v = None THEN Return(None) ELSE BoolOf(v)

----------------------------------------------------------------------------
(* The schemas *)

RootLoc == "__root__"

BaseFields ==
    <<"email", "nickname", "first_name", "last_name", "bio", "profile_picture_url",
      "linkedin_profile_url", "github_profile_url", "role">>

\* Variant: UserResponse deriving from UserCreate, password among its fields
FieldOrder_ResponseFromCreate(sh) ==
    CASE sh = "create" -> BaseFields \o <<"password">>
      [] sh = "update" -> BaseFields
      [] sh = "response" -> BaseFields \o <<"password", "id", "is_professional">>

\* pydantic keeps the base class's field order and appends the new fields
FieldOrder(sh) ==
    CASE sh = "create" -> BaseFields \o <<"password">>
      [] sh = "update" -> BaseFields
      [] sh = "response" -> BaseFields \o <<"id", "is_professional">>

Declared(sh) == {FieldOrder(sh)[i] : i \in 1..Len(FieldOrder(sh))}

\* Field(...) or no default
Required(sh, f) ==
    CASE sh = "create" -> f \in {"email", "role", "password"}
      [] sh = "update" -> FALSE
      [] sh = "response" -> f \in {"email", "role", "id"}

\* Variant: a generated name as the default of nickname
Default_GeneratedNickname(sh, f) ==
    IF f = "is_professional" THEN Bool(FALSE)
    ELSE IF f = "nickname" THEN Str(s_gen_fox)
    ELSE None

\* Field(None, ...), Field(default=False, ...)
Default(sh, f) == IF f = "is_professional" THEN Bool(FALSE) ELSE None

\* validator(..., always=True): the default is validated too
ValidateDefault(sh, f) == sh = "create" /\ f = "nickname"

\* UserUpdate.check_at_least_one_value is a root_validator(pre=True)
HasRootValidator(sh) == sh = "update"

\* The field's annotation
UserBaseRole(v) == RoleEnum(v)

\* UserUpdate.role: Optional[str]
UserUpdateRole(v) == OptionalStr(v)

CoreCheck(sh, f, v) ==
    CASE f = "email" -> IF sh = "update" THEN OptionalEmailStr(v) ELSE EmailStr(v)
      [] f = "nickname" -> OptionalNicknameStr(v)
      [] f = "role" -> IF sh = "update" THEN UserUpdateRole(v) ELSE UserBaseRole(v)
      [] f = "password" -> PlainStr(v)
      [] f = "id" -> UuidOf(v)
      [] f = "is_professional" -> OptionalBool(v)
      [] OTHER -> OptionalStr(v)

\* Python truthiness of a raw value
IsTruthy(v) == (v.kind = "str" /\ v.s # <<>>) \/ (v.kind = "bool" /\ v.b)

MsgEmptyUpdate == "At least one field must be provided for update"

Values(values) == {values[k] : k \in {x \in DOMAIN values : values[x] # Missing}}

\* UserUpdate.check_at_least_one_value: values is the raw input, every key of it
check_at_least_one_value(values) ==
    IF ~(\E v \in Values(values) : IsTruthy(v)) THEN Raise("ValueError", MsgEmptyUpdate)
    ELSE Return(values)

\* Variant: generate only for None (value if value is not None else ...)
set_or_generate_nickname_NoneOnly(value, gen) ==
    IF value # None THEN [res |-> Return(value), calls |-> 0]
    ELSE [res |-> gen, calls |-> 1]

\* Variant: the value as it is, no generated name
set_or_generate_nickname_Never(value, gen) == [res |-> Return(value), calls |-> 0]

\* UserCreate.set_or_generate_nickname: value or generate_nickname(), gen being
\* what the call does; calls counts the calls made
set_or_generate_nickname(value, gen) ==
    IF IsTruthy(value) THEN [res |-> Return(value), calls |-> 0]
    ELSE [res |-> gen, calls |-> 1]

\* The pre=True validator of a field: [res, calls, called, checked], checked
\* saying that the validator got as far as its pattern or length check.
PreValidator(sh, f, v, gen) ==
    CASE f = "profile_picture_url" ->
            [res |-> validate_url(v), calls |-> 0, called |-> TRUE, checked |-> v # None]
      [] f = "github_profile_url" ->
            [res |-> validate_github_url(v), calls |-> 0, called |-> TRUE, checked |-> v # None]
      [] f = "linkedin_profile_url" ->
            [res |-> validate_linkedin_url(v), calls |-> 0, called |-> TRUE, checked |-> v # None]
      [] f = "password" /\ sh = "create" ->
            [res |-> validate_password(v), calls |-> 0, called |-> TRUE, checked |-> v # None]
      [] f = "nickname" /\ sh = "create" ->
            LET r == set_or_generate_nickname(v, gen)
            IN [res |-> r.res, calls |-> r.calls, called |-> TRUE, checked |-> FALSE]
      [] OTHER -> [res |-> Return(v), calls |-> 0, called |-> FALSE, checked |-> FALSE]

\* The fields whose pre validator reaches generate_nickname()
CallsGenerator(sh, f) == sh = "create" /\ f = "nickname"
NoGen == Raise("NotCalled", "")

\* The errors pydantic turns into a line of its ValidationError
CaughtByPydantic == {"ValueError", "AssertionError"}
ErrorType(exc) == IF exc = "AssertionError" THEN "assertion_error" ELSE "value_error"
ErrorMsg(exc, msg) ==
    (IF exc = "AssertionError" THEN "Assertion failed, " ELSE "Value error, ") \o msg

----------------------------------------------------------------------------
(* The raw inputs of the model: a mapping from every key the model knows   *)
(* to Missing (the key is not in the input), None or a value.  "password"  *)
(* is no field of UserUpdate or UserResponse, "id" and "is_professional"   *)
(* none of UserCreate: there they are extra keys, which pydantic ignores.  *)

CreateInputs ==
    [email : {Missing, Str(s_email_ok), Str(s_email_bad)},
     nickname : {Missing, None, Str(<<>>), Str(s_nick_short), Str(s_nick_bad), Str(s_nick_ok)},
     first_name : {Str(s_name)},
     last_name : {Missing},
     bio : {None},
     profile_picture_url : {Missing},
     linkedin_profile_url : {Missing, Str(s_li_ok)},
     github_profile_url : {Missing, Str(s_gh_bad)},
     role : {Missing, Str(s_ADMIN), Str(s_SUPERUSER)},
     password : {Missing, None, Str(s_pw_ok), Str(s_pw_short), Str(s_pw_noupper)},
     id : {Missing},
     is_professional : {Missing}]

UpdateInputs ==
    [email : {Missing, Str(s_email_ok), Str(s_email_padded), Str(s_email_bad)},
     nickname : {Missing, Str(<<>>), Str(s_nick_ok)},
     first_name : {Missing},
     last_name : {Missing},
     bio : {Missing, None, Str(<<>>), Str(s_bio)},
     profile_picture_url : {Missing, Str(s_pic_bad)},
     linkedin_profile_url : {Missing},
     github_profile_url : {Missing, None, Str(s_gh_ok)},
     role : {Missing, None, Str(s_ADMIN), Str(s_SUPERUSER)},
     password : {Missing, Str(s_pw_ok)},
     id : {Missing},
     is_professional : {Missing}]

ResponseInputs ==
    [email : {Missing, Str(s_email_ok)},
     nickname : {None, Str(s_nick_ok)},
     first_name : {Str(s_name)},
     last_name : {None},
     bio : {Missing},
     profile_picture_url : {Missing, Str(s_pic_ok)},
     linkedin_profile_url : {None},
     github_profile_url : {Str(s_gh_ok), Str(s_gh_bad)},
     role : {Str(s_ADMIN), Str(s_SUPERUSER)},
     password : {Missing, Str(s_pw_ok)},
     id : {Missing, None, Str(s_uuid_ok), Str(s_uuid_simple), Str(s_uuid_urn), Str(s_uuid_braced),
           Str(s_uuid_bad), Str(s_uuid_misplaced), Str(s_uuid_trailing)},
     is_professional : {Missing, None, Bool(TRUE), Str(s_one), Str(s_Yes), Str(s_off), Str(s_x)}]

RawInputs(sh) ==
    CASE sh = "create" -> CreateInputs
      [] sh = "update" -> UpdateInputs
      [] sh = "response" -> ResponseInputs

NoInput ==
    [email |-> Missing, nickname |-> Missing, first_name |-> Missing, last_name |-> Missing,
     bio |-> Missing, profile_picture_url |-> Missing, linkedin_profile_url |-> Missing,
     github_profile_url |-> Missing, role |-> Missing, password |-> Missing,
     id |-> Missing, is_professional |-> Missing]

NoRecord == <<>>

----------------------------------------------------------------------------
(* Validation of one input, step by step *)

Idle ==
    /\ shape = "idle" /\ raw = NoInput /\ phase = "idle" /\ idx = 0 /\ cur = None
    /\ errors = {} /\ out = NoRecord /\ result = "none" /\ genCalls = 0 /\ trace = <<>>

Init == Idle /\ arg = NoArg /\ ret = Unset

\* Model(**raw): pydantic starts with the pre root validator, if the schema has one
Begin(sh) ==
    /\ phase = "idle"
    /\ \E r \in RawInputs(sh) : raw' = r
    /\ shape' = sh
    /\ phase' = IF HasRootValidator(sh) THEN "root" ELSE "pre"
    /\ idx' = 1
    /\ UNCHANGED <<cur, errors, out, result, genCalls, trace, arg, ret>>

\* The pre root validator: when it raises, no field is validated
RootValidate ==
    /\ phase = "root"
    /\ LET r == check_at_least_one_value(raw)
       IN /\ trace' = Append(trace, <<"root", RootLoc>>)
          /\ IF r.ok
             THEN phase' = "pre" /\ UNCHANGED <<errors, result>>
             ELSE /\ phase' = "done"
                  /\ errors' = {[loc |-> RootLoc, type |-> ErrorType(r.exc), msg |-> ErrorMsg(r.exc, r.msg)]}
                  /\ result' = "invalid"
    /\ UNCHANGED <<shape, raw, idx, cur, out, genCalls, arg, ret>>

\* After a field: the next field, or the end, where pydantic raises one
\* ValidationError with every error collected, or builds the record.
Advance(errs, o) ==
    IF idx = Len(FieldOrder(shape))
    THEN /\ phase' = "done" /\ idx' = idx
         /\ result' = (IF errs = {} THEN "ok" ELSE "invalid")
         /\ out' = (IF errs = {} THEN o ELSE NoRecord)
    ELSE /\ phase' = "pre" /\ idx' = idx + 1
         /\ result' = result
         /\ out' = o

\* A field, first part: a key that is missing gives the "missing" error or the
\* default; a value goes to the field's pre=True validator, if it has one.
PreValidate(gens) ==
    /\ phase = "pre"
    /\ LET f == FieldOrder(shape)[idx]
           v == raw[f]
       IN IF v = Missing /\ ~ValidateDefault(shape, f)
          THEN LET errs == IF Required(shape, f)
                            THEN errors \cup {[loc |-> f, type |-> "missing", msg |-> "Field required"]}
                            ELSE errors
                   o == IF Required(shape, f) THEN out ELSE out @@ (f :> Default(shape, f))
               IN /\ errors' = errs
                  /\ Advance(errs, o)
                  /\ UNCHANGED <<cur, genCalls, trace>>
          ELSE \E g \in (IF CallsGenerator(shape, f) THEN gens ELSE {NoGen}) :
               LET in == IF v = Missing THEN Default(shape, f) ELSE v
                   p == PreValidator(shape, f, in, g)
                   events == (IF p.called THEN <<<<"pre", f>>>> ELSE <<>>)
                             \o (IF p.calls > 0 THEN <<<<"gen", f>>>> ELSE <<>>)
                             \o (IF p.checked THEN <<<<"check", f>>>> ELSE <<>>)
                             \o (IF ~p.res.ok THEN <<<<"raise", f>>>> ELSE <<>>)
               IN /\ genCalls' = genCalls + p.calls
                  /\ trace' = trace \o events
                  /\ IF p.res.ok
                     THEN /\ cur' = p.res.v
                          /\ phase' = "core"
                          /\ UNCHANGED <<idx, errors, out, result>>
                     ELSE IF p.res.exc \in CaughtByPydantic
                     THEN LET errs == errors \cup {[loc |-> f, type |-> ErrorType(p.res.exc),
                                                       msg |-> ErrorMsg(p.res.exc, p.res.msg)]}
                          IN /\ errors' = errs
                             /\ Advance(errs, out)
                             /\ cur' = cur
                     ELSE /\ phase' = "done"
                          /\ result' = "raised"
                          /\ out' = NoRecord
                          /\ UNCHANGED <<idx, errors, cur>>
    /\ UNCHANGED <<shape, raw, arg, ret>>

\* A field, second part: the annotation's type and constraints
CoreValidate ==
    /\ phase = "core"
    /\ LET f == FieldOrder(shape)[idx]
           r == CoreCheck(shape, f, cur)
           errs == IF r.ok THEN errors
                   ELSE errors \cup {[loc |-> f, type |-> r.exc, msg |-> r.msg]}
           o == IF r.ok THEN out @@ (f :> r.v) ELSE out
       IN /\ trace' = (IF cur # None THEN Append(trace, <<"check", f>>) ELSE trace)
          /\ errors' = errs
          /\ Advance(errs, o)
    /\ UNCHANGED <<shape, raw, cur, genCalls, arg, ret>>

Next ==
    \/ Begin("create")
    \/ Begin("update")
    \/ Begin("response")
    \/ RootValidate
    \/ PreValidate(GenReturns)
    \/ CoreValidate

Spec == Init /\ [][Next]_vars

\* The same with a nickname generator that may break its contract
NextFallible ==
    \/ Begin("create")
    \/ Begin("update")
    \/ Begin("response")
    \/ RootValidate
    \/ PreValidate(GenReturns \cup GenBreaks)
    \/ CoreValidate

SpecFallible == Init /\ [][NextFallible]_vars

----------------------------------------------------------------------------
(* The field validators on their own *)

InitPw ==
    /\ Idle
    /\ \E s \in PwStrings : arg = [fn |-> "validate_password", v |-> Str(s)]
    /\ ret = Unset

ApplyValidatePassword ==
    /\ arg.fn = "validate_password" /\ ret = Unset
    /\ ret' = validate_password(arg.v)
    /\ UNCHANGED <<shape, raw, phase, idx, cur, errors, out, result, genCalls, trace, arg>>

NextPw == ApplyValidatePassword

SpecPw == InitPw /\ [][NextPw]_vars

InitUrl ==
    /\ Idle
    /\ \E fn \in UrlValidators, v \in {None} \cup {Str(s) : s \in UrlStrings} :
          arg = [fn |-> fn, v |-> v]
    /\ ret = Unset

ApplyValidateUrl ==
    /\ arg.fn = "validate_url" /\ ret = Unset
    /\ ret' = validate_url(arg.v)
    /\ UNCHANGED <<shape, raw, phase, idx, cur, errors, out, result, genCalls, trace, arg>>

ApplyValidateGithubUrl ==
    /\ arg.fn = "validate_github_url" /\ ret = Unset
    /\ ret' = validate_github_url(arg.v)
    /\ UNCHANGED <<shape, raw, phase, idx, cur, errors, out, result, genCalls, trace, arg>>

ApplyValidateLinkedinUrl ==
    /\ arg.fn = "validate_linkedin_url" /\ ret = Unset
    /\ ret' = validate_linkedin_url(arg.v)
    /\ UNCHANGED <<shape, raw, phase, idx, cur, errors, out, result, genCalls, trace, arg>>

NextUrl == ApplyValidateUrl \/ ApplyValidateGithubUrl \/ ApplyValidateLinkedinUrl

SpecUrl == InitUrl /\ [][NextUrl]_vars

----------------------------------------------------------------------------
(* Vocabulary of the properties *)

Events(kind) == {trace[i][2] : i \in {j \in 1..Len(trace) : trace[j][1] = kind}}
Position(kind, f) == CHOOSE i \in 1..Len(trace) : trace[i] = <<kind, f>>
AllIn(s, cls) == \A i \in 1..Len(s) : s[i] \in cls
HasPrefix(s, p) == Len(p) <= Len(s) /\ SubSeq(s, 1, Len(p)) = p
After(s, p) == SubSeq(s, Len(p) + 1, Len(s))
ChopLast(s, c) == IF s # <<>> /\ s[Len(s)] = c THEN SubSeq(s, 1, Len(s) - 1) ELSE s

\* The strings of each URL pattern, written out: the scheme, the host, the
\* name; a newline that ends the string is not part of what $ looks at.
IsGenericUrl(s) ==
    \E sch \in {s_http, s_https}, t \in {s, ChopLast(s, "\n")} :
        /\ HasPrefix(t, sch \o s_sep)
        /\ LET r == After(t, sch \o s_sep)
           IN /\ Len(r) >= 2
              /\ r[1] \notin SpaceChars \cup {"/", "$", ".", "?", "#"}
              /\ r[2] # "\n"
              /\ \A i \in 3..Len(r) : r[i] \notin SpaceChars

IsProfileUrl(s, host, nameChars) ==
    \E sch \in {s_http, s_https}, w \in {<<>>, s_www}, t \in {s, ChopLast(s, "\n")} :
        /\ HasPrefix(t, sch \o s_sep \o w \o host)
        /\ \E name \in {After(t, sch \o s_sep \o w \o host),
                        ChopLast(After(t, sch \o s_sep \o w \o host), "/")} :
              name # <<>> /\ AllIn(name, nameChars)

IsGithubUrl(s) == IsProfileUrl(s, s_github, AlnumChars \cup {"-", "_"})
IsLinkedinUrl(s) == IsProfileUrl(s, s_linkedin_in, AlnumChars \cup {"-", "_", "%"})

EmptyUpdateError ==
    [loc |-> RootLoc, type |-> "value_error", msg |-> "Value error, At least one field must be provided for update"]
GeneratorFailed ==
    \E i \in 1..(Len(trace) - 1) :
        trace[i] = <<"gen", "nickname">> /\ trace[i + 1] = <<"raise", "nickname">>
NicknameResolved == shape = "create" /\ "nickname" \in Events("pre")

----------------------------------------------------------------------------
(* C1: a UserUpdate input in which every declared field is absent or empty *)
(* is rejected with exactly one record-level error, "At least one field    *)
(* must be provided for update", and no field validator has run.           *)
C1_EmptyUpdateRejected ==
    (shape = "update" /\ phase = "done"
        /\ \A f \in Declared("update") : ~IsTruthy(raw[f]))
    => /\ result = "invalid"
       /\ errors = {EmptyUpdateError}
       /\ trace = <<<<"root", RootLoc>>>>

(* C2: an accepted UserCreate has a nickname that is present, not empty, of *)
(* at least 3 characters, all of them word characters or hyphens; a        *)
(* supplied nickname is kept, and with none supplied the record holds what *)
(* the generator returned, which has passed the same checks.               *)
C2_CreateNicknameValid ==
    (shape = "create" /\ result = "ok")
    => /\ "nickname" \in DOMAIN out
       /\ IsStr(out.nickname)
       /\ Len(out.nickname.s) >= 3
       /\ AllIn(out.nickname.s, WordChars \cup {"-"})
       /\ IF IsTruthy(raw.nickname)
          THEN out.nickname = raw.nickname /\ genCalls = 0
          ELSE Return(out.nickname) \in GenReturns \cup GenBreaks /\ genCalls = 1

C2_Witness ==
    /\ shape = "create" /\ result = "ok"
    /\ raw.nickname = Missing /\ genCalls = 1
    /\ out.nickname = Str(s_gen_owl)

(* C3: validate_password returns the password unchanged iff it has at least *)
(* 8 characters, an uppercase letter, a lowercase letter and a digit;      *)
(* otherwise it raises the message of the first rule violated in the order *)
(* length, uppercase, lowercase, digit.                                    *)
C3_PasswordFirstViolatedRule ==
    (arg.fn = "validate_password" /\ ret # Unset)
    => LET s == arg.v.s
           rules == << <<Len(s) >= 8, MsgPwLength>>,
                       <<\E i \in 1..Len(s) : s[i] \in UpperChars, MsgPwUpper>>,
                       <<\E i \in 1..Len(s) : s[i] \in LowerChars, MsgPwLower>>,
                       <<\E i \in 1..Len(s) : s[i] \in DigitChars, MsgPwDigit>> >>
           violated == {i \in 1..4 : ~rules[i][1]}
       IN IF violated = {}
          THEN ret = Return(arg.v)
          ELSE \E i \in violated :
                  /\ \A j \in violated : i <= j
                  /\ ret = Raise("ValueError", rules[i][2])

C3_Witness ==
    /\ arg.fn = "validate_password"
    /\ Len(arg.v.s) >= 8
    /\ AllIn(arg.v.s, {"a", "-"}) /\ "a" \in {arg.v.s[i] : i \in 1..Len(arg.v.s)}
    /\ ret = Raise("ValueError", MsgPwUpper)

(* C4: a UserCreate input missing any of email, password, role is rejected *)
(* with one ValidationError that holds one "missing" error for each of     *)
(* them (validation goes on after a failing field), and no record is made. *)
C4_CreateAggregatesMissing ==
    (shape = "create" /\ phase = "done"
        /\ \E f \in {"email", "password", "role"} : raw[f] = Missing)
    => /\ result = "invalid"
       /\ out = NoRecord
       /\ \A f \in {"email", "password", "role"} :
             raw[f] = Missing
             => Cardinality({e \in errors : e.loc = f /\ e.type = "missing"}) = 1

(* C5: a UserResponse that is built never has a password field, whether or *)
(* not the input it is built from carried one: it has the declared fields  *)
(* of UserResponse and nothing else.                                       *)
C5_OutwardHasNoPassword ==
    (shape = "response" /\ result = "ok")
    => /\ "password" \notin DOMAIN out
       /\ DOMAIN out = Declared("response")

C5_Witness ==
    /\ shape = "response" /\ result = "ok"
    /\ raw.password = Str(s_pw_ok)
    /\ out.id = Str(s_uuid_ok)

(* C6: in a UserUpdate validation that passed the presence check, pattern  *)
(* and type checks run only on fields that carry a value, the generator is *)
(* never called, and every field that is absent from the input is absent   *)
(* (None) in the accepted record.                                          *)
C6_UpdateLeavesAbsentFieldsAbsent ==
    shape = "update"
    => /\ \A f \in Events("check") : IsStr(raw[f])
       /\ genCalls = 0
       /\ result = "ok"
          => /\ DOMAIN out = Declared("update")
             /\ \A f \in Declared("update") :
                   raw[f] \in {Missing, None} => out[f] = None

C6_Witness ==
    /\ shape = "update" /\ result = "ok"
    /\ raw.bio = Str(s_bio)
    /\ \A f \in DOMAIN raw : f # "bio" => raw[f] = Missing
    /\ out.bio = Str(s_bio)
    /\ trace = << <<"root", RootLoc>>, <<"check", "bio">> >>

(* C7: a UserUpdate whose role is present is accepted only if the role is  *)
(* a member of UserRole.                                                   *)
C7_UpdateRoleRecognized ==
    (shape = "update" /\ result = "ok" /\ IsStr(raw.role))
    => raw.role.s \in UserRole

(* C8: each of validate_url, validate_github_url and validate_linkedin_url *)
(* returns None for None, returns a string unchanged iff the string is one *)
(* of its pattern, and raises its own message otherwise.                   *)
C8_UrlValidators ==
    (arg.fn \in UrlValidators /\ ret # Unset)
    => LET conforms == CASE arg.fn = "validate_url" -> IsGenericUrl(arg.v.s)
                         [] arg.fn = "validate_github_url" -> IsGithubUrl(arg.v.s)
                         [] arg.fn = "validate_linkedin_url" -> IsLinkedinUrl(arg.v.s)
           msg == CASE arg.fn = "validate_url" -> MsgUrl
                    [] arg.fn = "validate_github_url" -> MsgGithub
                    [] arg.fn = "validate_linkedin_url" -> MsgLinkedin
       IN IF arg.v = None THEN ret = Return(None)
          ELSE IF conforms THEN ret = Return(arg.v)
          ELSE ret = Raise("ValueError", msg)

C8_Witness ==
    /\ arg.fn = "validate_linkedin_url"
    /\ arg.v = Str(s_gh_ok)
    /\ ret = Raise("ValueError", MsgLinkedin)

(* C9: when generate_nickname() fails in a UserCreate validation, the      *)
(* validation ends in a ValidationError with an error on the nickname      *)
(* field.                                                                  *)
C9_GeneratorFailureIsNicknameError ==
    (shape = "create" /\ phase = "done" /\ GeneratorFailed)
    => /\ result = "invalid"
       /\ \E e \in errors : e.loc = "nickname"

(* C10, as claimed: the resolver runs before the nickname's pattern check; *)
(* a nickname that is supplied, the empty string included, is passed on    *)
(* unchanged without a call of the generator; with none supplied the       *)
(* generator is called exactly once.                                       *)
C10_AnySuppliedStringIsKept ==
    NicknameResolved
    => IF IsStr(raw.nickname)
       THEN genCalls = 0 /\ (phase = "core" /\ idx = 2 => cur = raw.nickname)
       ELSE genCalls = 1

(* C10, amended: in a UserCreate validation the resolver runs before the   *)
(* nickname's pattern check; a supplied nickname that is not empty is      *)
(* passed on unchanged without a call of the generator; when the nickname  *)
(* is absent, None or the empty string the generator is called exactly     *)
(* once and what it returns is what is checked.                            *)
C10_NonEmptyNicknameIsKept ==
    shape = "create"
    => /\ genCalls <= 1
       /\ ~NicknameResolved => genCalls = 0 /\ "nickname" \notin Events("check")
       /\ "nickname" \in Events("check")
          => NicknameResolved /\ Position("pre", "nickname") < Position("check", "nickname")
       /\ NicknameResolved
          => IF IsTruthy(raw.nickname)
             THEN genCalls = 0 /\ (phase = "core" /\ idx = 2 => cur = raw.nickname)
             ELSE genCalls = 1 /\ (phase = "core" /\ idx = 2 => Return(cur) \in GenReturns)

C10_Witness ==
    /\ shape = "create" /\ phase = "core" /\ idx = 2
    /\ raw.nickname = Str(<<>>)
    /\ genCalls = 1
    /\ cur = Str(s_gen_fox)

====
